---- MODULE Spec2Model ----
(***************************************************************************)
(* State-machine model of src/main.py: the serial protocol core of the     *)
(* PWM / lux desktop tool.  Four kinds of thread share one serial device   *)
(* and a handful of module globals:                                        *)
(*   - the Tk main thread, which runs send_data and                        *)
(*     start_stop_lux_listening (never both at once);                      *)
(*   - the USART thread, listen_to_usart;                                  *)
(*   - one listen_for_lux thread per Idle->Listening toggle;               *)
(*   - the plot thread, update_plot.                                       *)
(* Every access to a shared object is a step of its own, so the            *)
(* interleavings of the Python threads are the behaviours of the model.    *)
(***************************************************************************)
EXTENDS Integers, Sequences, FiniteSets, TLC

(***************************************************************************)
(* Bounds of the model.                                                    *)
(***************************************************************************)
\* chunks the device emits in a run of Spec
MaxChunks == 2
\* listen_for_lux threads a run may start (Idle->Listening toggles)
MaxThreads == 2
\* send_data calls in a run
MaxSubmits == 1
\* samples the device streams in a run of HistSpec
MaxStream == 102

(***************************************************************************)
(* Program constants.                                                      *)
(***************************************************************************)
\* if len(timestamps) > 100
HistoryCap == 100
\* elif not (0 <= pwm_value <= 999)
PwmMax == 999
\* low_lux, high_lux = 0, 1000
DefaultHigh == 1000

(***************************************************************************)
(* JSON values.  A value carries its JSON type; strings are named by a     *)
(* code (1 is "data", the only string the program compares against).       *)
(***************************************************************************)
JInt(n) == [t |-> "int", v |-> n]
JStr(code) == [t |-> "str", v |-> code]
JBool(b) == [t |-> "bool", v |-> b]
Absent == [t |-> "absent", v |-> 0]

Keys == {"success", "message", "operation", "low_lux", "high_lux", "data"}
EmptyDict == [k \in Keys |-> Absent]
\* 'k' in data
Has(d, k) == d[k].t # "absent"

(***************************************************************************)
(* Text on the wire.  A text is a sequence of symbols: the braces, white   *)
(* space, junk, and one symbol for the key/value list between the braces   *)
(* of an object.  A device chunk is what one readline() call returns.      *)
(***************************************************************************)
Ch(c) == [c |-> c, n |-> 0]
Body(kind, n) == [c |-> kind, n |-> n]
Open == Ch("{")
Close == Ch("}")
Ws == Ch(" ")
Junk == Ch("x")

\* the (low_lux, high_lux) pairs the device may announce; the third has a
\* string for low_lux
BoundsPairs ==
  << <<JInt(100), JInt(200)>>, <<JInt(500), JInt(100)>>,
     <<JStr(4), JInt(200)>> >>

BodyKinds == {"ack", "bounds", "sample", "hybrid", "textsample"}

\* the dictionary a key/value list denotes
Decode(b) ==
  CASE b.c = "ack" ->
         [EmptyDict EXCEPT !["success"] = JBool(1), !["message"] = JStr(2)]
    [] b.c = "bounds" ->
         [EmptyDict EXCEPT !["operation"] = JStr(3), !["message"] = JStr(2),
                           !["low_lux"] = BoundsPairs[b.n][1],
                           !["high_lux"] = BoundsPairs[b.n][2]]
    [] b.c = "sample" ->
         [EmptyDict EXCEPT !["operation"] = JStr(1), !["data"] = JInt(b.n)]
    [] b.c = "hybrid" ->
         [EmptyDict EXCEPT !["success"] = JBool(1), !["message"] = JStr(2),
                           !["operation"] = JStr(3),
                           !["low_lux"] = BoundsPairs[b.n][1],
                           !["high_lux"] = BoundsPairs[b.n][2]]
    [] b.c = "textsample" ->
         [EmptyDict EXCEPT !["operation"] = JStr(1), !["data"] = JStr(b.n)]
    [] OTHER -> EmptyDict

Frame(b) == <<Open, b, Close>>

\* json.loads: one object, or an error
Loads(text) ==
  IF Len(text) = 3 /\ text[1] = Open /\ text[3] = Close /\ text[2].c \in BodyKinds
    THEN [ok |-> TRUE, d |-> Decode(text[2])]
    ELSE IF text = <<Open, Close>>
      THEN [ok |-> TRUE, d |-> EmptyDict]
      ELSE [ok |-> FALSE, d |-> EmptyDict]

RECURSIVE LStrip(_)
LStrip(text) ==
  IF text # <<>> /\ Head(text) = Ws THEN LStrip(Tail(text)) ELSE text

RECURSIVE RStrip(_)
RStrip(text) ==
  IF text # <<>> /\ text[Len(text)] = Ws
    THEN RStrip(SubSeq(text, 1, Len(text) - 1))
    ELSE text

\* str.strip()
Strip(text) == RStrip(LStrip(text))

\* buffer.find('}'), 1-based; 0 when there is none (Python's -1)
Find(text) ==
  IF \E i \in 1..Len(text) : text[i] = Close
    THEN CHOOSE i \in 1..Len(text) :
           text[i] = Close /\ \A j \in 1..(i - 1) : text[j] # Close
    ELSE 0

(***************************************************************************)
(* int() of an Entry's text: optional white space, optional sign, digits.  *)
(***************************************************************************)
Digits == <<"0", "1", "2", "3", "4", "5", "6", "7", "8", "9">>
IsDigit(c) == \E i \in 1..10 : Digits[i] = c
DigitVal(c) == (CHOOSE i \in 1..10 : Digits[i] = c) - 1

RECURSIVE TrimL(_)
TrimL(s) == IF s # <<>> /\ Head(s) = " " THEN TrimL(Tail(s)) ELSE s

RECURSIVE TrimR(_)
TrimR(s) ==
  IF s # <<>> /\ s[Len(s)] = " " THEN TrimR(SubSeq(s, 1, Len(s) - 1)) ELSE s

RECURSIVE Magnitude(_)
Magnitude(s) ==
  IF s = <<>> THEN 0
  ELSE 10 * Magnitude(SubSeq(s, 1, Len(s) - 1)) + DigitVal(s[Len(s)])

ParseInt(text) ==
  LET s == TrimR(TrimL(text))
      signed == s # <<>> /\ Head(s) \in {"-", "+"}
      ds == IF signed THEN Tail(s) ELSE s
  IN IF ds # <<>> /\ \A i \in 1..Len(ds) : IsDigit(ds[i])
       THEN [ok |-> TRUE,
             v |-> IF signed /\ Head(s) = "-" THEN 0 - Magnitude(ds)
                   ELSE Magnitude(ds)]
       ELSE [ok |-> FALSE, v |-> 0]

(***************************************************************************)
(* Inputs.                                                                 *)
(***************************************************************************)
\* what the user may have typed into lux_entry and pwm_entry, and selected
LuxTexts == {<<"5", "0">>, <<"1", "5", "0", "0">>, <<"a", "b", "c">>}
PwmTexts == {<<" ", "7">>, <<"1", "0", "0", "0">>, <<"x">>}
Priorities == {"PWM", "LUX"}
Forms == [lux : LuxTexts, pwm : PwmTexts, priority : Priorities]

\* the forms a run of Spec submits: one that passes, one that fails the PWM
\* check, one that fails the lux check and is no integer
CoreForms ==
  { [lux |-> <<"5", "0">>, pwm |-> <<" ", "7">>, priority |-> "PWM"],
    [lux |-> <<"5", "0">>, pwm |-> <<"1", "0", "0", "0">>, priority |-> "LUX"],
    [lux |-> <<"1", "5", "0", "0">>, pwm |-> <<"x">>, priority |-> "LUX"] }

\* the chunks the device may emit as its n-th chunk
Chunks(n) ==
  { Frame(Body("ack", 0)),
    Frame(Body("bounds", 1)),
    Frame(Body("bounds", 2)),
    Frame(Body("sample", n)) \o <<Ws>>,
    <<Junk, Close>> }

(***************************************************************************)
(* State.                                                                  *)
(***************************************************************************)
VARIABLES
  serial_lock,     \* threading.Lock(): who holds it
  low_lux,         \* module global
  high_lux,        \* module global
  lux_values,      \* module global, list
  timestamps,      \* module global, list
  lux_listening,   \* module global, flag
  lux_thread,      \* module global: the last thread started (their count)
  status_label,    \* what send_data last reported
  feedback_label,  \* what the USART loop last reported
  rx,              \* device -> host: chunks waiting to be read (in_waiting)
  sent,            \* chunks the device has emitted
  txBuf,           \* host -> device: frames written and not yet flushed
  txCount,         \* frames flushed onto the wire
  now,             \* time.time()
  pcG,             \* Tk main thread: where it is
  sd,              \* send_data's locals
  nSubmit,         \* send_data calls so far
  pcU,             \* listen_to_usart: where it is
  buffer,          \* listen_to_usart's local buffer
  pcL,             \* listen_for_lux threads: where each is
  val,             \* listen_for_lux: each thread's local lux_value
  pcP,             \* update_plot: where it is
  plotN,           \* update_plot: the number of x values it took
  sessionStart     \* chunks consumed when the last session started

vars == <<serial_lock, low_lux, high_lux, lux_values, timestamps,
          lux_listening, lux_thread, status_label, feedback_label, rx, sent,
          txBuf, txCount, now, pcG, sd, nSubmit, pcU, buffer, pcL, val, pcP,
          plotN, sessionStart>>

Threads == 1..MaxThreads

Free == [who |-> "free", t |-> 0]
Gui == [who |-> "gui", t |-> 0]
Usart == [who |-> "usart", t |-> 0]
Lux(t) == [who |-> "lux", t |-> t]

\* send_data's frame when no call is running
NoCall == [pwm_text |-> <<>>, lux_text |-> <<>>, priority_var |-> "",
           pwm_value |-> 0, lux_value |-> 0, priority |-> 0,
           low |-> Absent, high |-> Absent, tx0 |-> 0]

Waiting == [success |-> Absent, message |-> Absent]

Init ==
  /\ serial_lock = Free
  /\ low_lux = JInt(0)
  /\ high_lux = JInt(DefaultHigh)
  /\ lux_values = <<>>
  /\ timestamps = <<>>
  /\ lux_listening = FALSE
  /\ lux_thread = 0
  /\ status_label = ""
  /\ feedback_label = Waiting
  /\ rx = <<>>
  /\ sent = 0
  /\ txBuf = <<>>
  /\ txCount = 0
  /\ now = 1
  /\ pcG = "idle"
  /\ sd = NoCall
  /\ nSubmit = 0
  /\ pcU = "poll"
  /\ buffer = <<>>
  /\ pcL = [t \in Threads |-> "none"]
  /\ val = [t \in Threads |-> Absent]
  /\ pcP = "check"
  /\ plotN = 0
  /\ sessionStart = 0

\* a lock that never makes anyone wait
CanAcquireAlways == TRUE

\* with serial_lock: entry
CanAcquire == serial_lock = Free

\* ser.readline().decode('utf-8').strip(): the next chunk, or nothing when
\* the read times out on an empty line
ReadLine == IF rx = <<>> THEN <<>> ELSE Strip(Head(rx))

(***************************************************************************)
(* The device.                                                             *)
(***************************************************************************)
\* the device emits chunk c
DeviceSend(c) ==
  /\ sent < MaxChunks
  /\ rx' = Append(rx, c)
  /\ sent' = sent + 1
  /\ UNCHANGED <<serial_lock, low_lux, high_lux, lux_values, timestamps,
                 lux_listening, lux_thread, status_label, feedback_label,
                 txBuf, txCount, now, pcG, sd, nSubmit, pcU, buffer, pcL, val,
                 pcP, plotN, sessionStart>>

\* a device that only streams samples, one chunk in flight at a time
DeviceStream ==
  /\ sent < MaxStream
  /\ rx = <<>>
  /\ rx' = <<Frame(Body("sample", sent + 1))>>
  /\ sent' = sent + 1
  /\ UNCHANGED <<serial_lock, low_lux, high_lux, lux_values, timestamps,
                 lux_listening, lux_thread, status_label, feedback_label,
                 txBuf, txCount, now, pcG, sd, nSubmit, pcU, buffer, pcL, val,
                 pcP, plotN, sessionStart>>

(***************************************************************************)
(* listen_to_usart.                                                        *)
(***************************************************************************)
\* the first '}'-terminated slice of the buffer and what it parses to
Slice == SubSeq(buffer, 1, Find(buffer))
Rest == SubSeq(buffer, Find(buffer) + 1, Len(buffer))
Parsed == Loads(Slice)

\* an Acknowledgement only when the frame has no operation key
IsAckExact(d) ==
  Has(d, "success") /\ Has(d, "message") /\ ~Has(d, "operation")

\* if 'success' in data and 'message' in data:
IsAck(d) == Has(d, "success") /\ Has(d, "message")
IsBounds(d) ==
  /\ Has(d, "operation") /\ Has(d, "message")
  /\ Has(d, "low_lux") /\ Has(d, "high_lux")

\* if ser.in_waiting > 0: (the loop sleeps and polls again otherwise)
U_Poll ==
  /\ pcU = "poll"
  /\ rx # <<>>
  /\ pcU' = "lock"
  /\ UNCHANGED <<serial_lock, low_lux, high_lux, lux_values, timestamps,
                 lux_listening, lux_thread, status_label, feedback_label, rx,
                 sent, txBuf, txCount, now, pcG, sd, nSubmit, buffer, pcL,
                 val, pcP, plotN, sessionStart>>

U_Acquire ==
  /\ pcU = "lock"
  /\ CanAcquire
  /\ serial_lock' = Usart
  /\ pcU' = "read"
  /\ UNCHANGED <<low_lux, high_lux, lux_values, timestamps, lux_listening,
                 lux_thread, status_label, feedback_label, rx, sent, txBuf,
                 txCount, now, pcG, sd, nSubmit, buffer, pcL, val, pcP, plotN,
                 sessionStart>>

\* incoming_data = ser.readline()...; buffer += incoming_data; lock released
U_Read ==
  /\ pcU = "read"
  /\ buffer' = buffer \o ReadLine
  /\ rx' = IF rx = <<>> THEN rx ELSE Tail(rx)
  /\ serial_lock' = Free
  /\ pcU' = "parse"
  /\ UNCHANGED <<low_lux, high_lux, lux_values, timestamps, lux_listening,
                 lux_thread, status_label, feedback_label, sent, txBuf,
                 txCount, now, pcG, sd, nSubmit, pcL, val, pcP, plotN,
                 sessionStart>>

\* an error path that leaves without releasing (acquire() and release()
\* around the read, with no finally)
U_ReadFailHolding ==
  /\ pcU = "read"
  /\ pcU' = "poll"
  /\ UNCHANGED <<serial_lock, low_lux, high_lux, lux_values, timestamps,
                 lux_listening, lux_thread, status_label, feedback_label, rx,
                 sent, txBuf, txCount, now, pcG, sd, nSubmit, buffer, pcL,
                 val, pcP, plotN, sessionStart>>

\* readline raises: the with block releases the lock, the handler sleeps
U_ReadFail ==
  /\ pcU = "read"
  /\ serial_lock' = Free
  /\ pcU' = "poll"
  /\ UNCHANGED <<low_lux, high_lux, lux_values, timestamps, lux_listening,
                 lux_thread, status_label, feedback_label, rx, sent, txBuf,
                 txCount, now, pcG, sd, nSubmit, buffer, pcL, val, pcP, plotN,
                 sessionStart>>

\* the inner loop ends: the buffer is empty or holds no '}'
U_ParseDone ==
  /\ pcU = "parse"
  /\ Find(buffer) = 0
  /\ pcU' = "poll"
  /\ UNCHANGED <<serial_lock, low_lux, high_lux, lux_values, timestamps,
                 lux_listening, lux_thread, status_label, feedback_label, rx,
                 sent, txBuf, txCount, now, pcG, sd, nSubmit, buffer, pcL,
                 val, pcP, plotN, sessionStart>>

\* json.loads raises: the handler prints and sleeps; buffer is as it was
U_ParseError ==
  /\ pcU = "parse"
  /\ Find(buffer) # 0
  /\ ~Parsed.ok
  /\ pcU' = "poll"
  /\ UNCHANGED <<serial_lock, low_lux, high_lux, lux_values, timestamps,
                 lux_listening, lux_thread, status_label, feedback_label, rx,
                 sent, txBuf, txCount, now, pcG, sd, nSubmit, buffer, pcL,
                 val, pcP, plotN, sessionStart>>

\* if 'success' in data and 'message' in data: feedback_label.config(...)
U_Ack ==
  /\ pcU = "parse"
  /\ Find(buffer) # 0
  /\ Parsed.ok
  /\ IsAck(Parsed.d)
  /\ feedback_label' = [success |-> Parsed.d["success"],
                        message |-> Parsed.d["message"]]
  /\ buffer' = Rest
  /\ UNCHANGED <<serial_lock, low_lux, high_lux, lux_values, timestamps,
                 lux_listening, lux_thread, status_label, rx, sent, txBuf,
                 txCount, now, pcG, sd, nSubmit, pcU, pcL, val, pcP, plotN,
                 sessionStart>>

\* elif 'operation' in data and ...: low_lux = data.get("low_lux", ...)
U_SetLow ==
  /\ pcU = "parse"
  /\ Find(buffer) # 0
  /\ Parsed.ok
  /\ ~IsAck(Parsed.d)
  /\ IsBounds(Parsed.d)
  /\ low_lux' = Parsed.d["low_lux"]
  /\ pcU' = "sethigh"
  /\ UNCHANGED <<serial_lock, high_lux, lux_values, timestamps,
                 lux_listening, lux_thread, status_label, feedback_label, rx,
                 sent, txBuf, txCount, now, pcG, sd, nSubmit, buffer, pcL,
                 val, pcP, plotN, sessionStart>>

\* high_lux = data.get("high_lux", ...); buffer = buffer[end_pos + 1:]
U_SetHigh ==
  /\ pcU = "sethigh"
  /\ high_lux' = Parsed.d["high_lux"]
  /\ buffer' = Rest
  /\ pcU' = "parse"
  /\ UNCHANGED <<serial_lock, low_lux, lux_values, timestamps, lux_listening,
                 lux_thread, status_label, feedback_label, rx, sent, txBuf,
                 txCount, now, pcG, sd, nSubmit, pcL, val, pcP, plotN,
                 sessionStart>>

\* neither shape: buffer = buffer[end_pos + 1:]
U_Discard ==
  /\ pcU = "parse"
  /\ Find(buffer) # 0
  /\ Parsed.ok
  /\ ~IsAck(Parsed.d)
  /\ ~IsBounds(Parsed.d)
  /\ buffer' = Rest
  /\ UNCHANGED <<serial_lock, low_lux, high_lux, lux_values, timestamps,
                 lux_listening, lux_thread, status_label, feedback_label, rx,
                 sent, txBuf, txCount, now, pcG, sd, nSubmit, pcU, pcL, val,
                 pcP, plotN, sessionStart>>

UsartStep ==
  \/ U_Poll \/ U_Acquire \/ U_Read \/ U_ReadFail \/ U_ParseDone
  \/ U_ParseError \/ U_Ack \/ U_SetLow \/ U_SetHigh \/ U_Discard

(***************************************************************************)
(* listen_for_lux, thread t.                                               *)
(***************************************************************************)
\* while lux_listening: false, the thread returns
L_Exit(t) ==
  /\ pcL[t] = "poll"
  /\ ~lux_listening
  /\ pcL' = [pcL EXCEPT ![t] = "done"]
  /\ UNCHANGED <<serial_lock, low_lux, high_lux, lux_values, timestamps,
                 lux_listening, lux_thread, status_label, feedback_label, rx,
                 sent, txBuf, txCount, now, pcG, sd, nSubmit, pcU, buffer,
                 val, pcP, plotN, sessionStart>>

\* while lux_listening: true; if ser.in_waiting > 0: (sleeps otherwise)
L_Poll(t) ==
  /\ pcL[t] = "poll"
  /\ lux_listening
  /\ rx # <<>>
  /\ pcL' = [pcL EXCEPT ![t] = "lock"]
  /\ UNCHANGED <<serial_lock, low_lux, high_lux, lux_values, timestamps,
                 lux_listening, lux_thread, status_label, feedback_label, rx,
                 sent, txBuf, txCount, now, pcG, sd, nSubmit, pcU, buffer,
                 val, pcP, plotN, sessionStart>>

L_Acquire(t) ==
  /\ pcL[t] = "lock"
  /\ CanAcquire
  /\ serial_lock' = Lux(t)
  /\ pcL' = [pcL EXCEPT ![t] = "read"]
  /\ UNCHANGED <<low_lux, high_lux, lux_values, timestamps, lux_listening,
                 lux_thread, status_label, feedback_label, rx, sent, txBuf,
                 txCount, now, pcG, sd, nSubmit, pcU, buffer, val, pcP, plotN,
                 sessionStart>>

\* what the thread does with the line it read: a sample goes on to the
\* appends; an empty line, invalid JSON or another shape goes back to sleep
IsSample(d) == d["operation"] = JStr(1) /\ Has(d, "data")

\* a read that leaves the line in the device's queue
L_ReadPeek(t) ==
  /\ pcL[t] = "read"
  /\ rx' = rx
  /\ serial_lock' = Free
  /\ LET r == Loads(ReadLine)
     IN IF ReadLine # <<>> /\ r.ok /\ IsSample(r.d)
          THEN /\ val' = [val EXCEPT ![t] = r.d["data"]]
               /\ pcL' = [pcL EXCEPT ![t] = "appT"]
          ELSE /\ val' = val
               /\ pcL' = [pcL EXCEPT ![t] = "poll"]
  /\ UNCHANGED <<low_lux, high_lux, lux_values, timestamps, lux_listening,
                 lux_thread, status_label, feedback_label, sent, txBuf,
                 txCount, now, pcG, sd, nSubmit, pcU, buffer, pcP, plotN,
                 sessionStart>>

\* incoming_data = ser.readline()...; lock released; data = json.loads(...)
L_Read(t) ==
  /\ pcL[t] = "read"
  /\ rx' = IF rx = <<>> THEN rx ELSE Tail(rx)
  /\ serial_lock' = Free
  /\ LET r == Loads(ReadLine)
     IN IF ReadLine # <<>> /\ r.ok /\ IsSample(r.d)
          THEN /\ val' = [val EXCEPT ![t] = r.d["data"]]
               /\ pcL' = [pcL EXCEPT ![t] = "appT"]
          ELSE /\ val' = val
               /\ pcL' = [pcL EXCEPT ![t] = "poll"]
  /\ UNCHANGED <<low_lux, high_lux, lux_values, timestamps, lux_listening,
                 lux_thread, status_label, feedback_label, sent, txBuf,
                 txCount, now, pcG, sd, nSubmit, pcU, buffer, pcP, plotN,
                 sessionStart>>

\* readline raises: the with block releases the lock, the handler sleeps
L_ReadFail(t) ==
  /\ pcL[t] = "read"
  /\ serial_lock' = Free
  /\ pcL' = [pcL EXCEPT ![t] = "poll"]
  /\ UNCHANGED <<low_lux, high_lux, lux_values, timestamps, lux_listening,
                 lux_thread, status_label, feedback_label, rx, sent, txBuf,
                 txCount, now, pcG, sd, nSubmit, pcU, buffer, val, pcP, plotN,
                 sessionStart>>

\* timestamps.append(time.time())
L_AppendT(t) ==
  /\ pcL[t] = "appT"
  /\ timestamps' = Append(timestamps, now)
  /\ now' = now + 1
  /\ pcL' = [pcL EXCEPT ![t] = "appL"]
  /\ UNCHANGED <<serial_lock, low_lux, high_lux, lux_values, lux_listening,
                 lux_thread, status_label, feedback_label, rx, sent, txBuf,
                 txCount, pcG, sd, nSubmit, pcU, buffer, val, pcP, plotN,
                 sessionStart>>

\* lux_values.append(lux_value)
L_AppendL(t) ==
  /\ pcL[t] = "appL"
  /\ lux_values' = Append(lux_values, val[t])
  /\ pcL' = [pcL EXCEPT ![t] = "len"]
  /\ UNCHANGED <<serial_lock, low_lux, high_lux, timestamps, lux_listening,
                 lux_thread, status_label, feedback_label, rx, sent, txBuf,
                 txCount, now, pcG, sd, nSubmit, pcU, buffer, val, pcP, plotN,
                 sessionStart>>

\* the eviction with pop() in place of pop(0): the newest entry goes
L_EvictNewest(t) ==
  /\ pcL[t] \in {"len", "popT", "popL"}
  /\ CASE pcL[t] = "len" ->
            /\ pcL' = [pcL EXCEPT ![t] =
                         IF Len(timestamps) > HistoryCap THEN "popT" ELSE "poll"]
            /\ val' = [val EXCEPT ![t] =
                         IF Len(timestamps) > HistoryCap THEN @ ELSE Absent]
            /\ UNCHANGED <<timestamps, lux_values>>
       [] pcL[t] = "popT" ->
            /\ timestamps' = IF timestamps = <<>> THEN timestamps
                             ELSE SubSeq(timestamps, 1, Len(timestamps) - 1)
            /\ pcL' = [pcL EXCEPT ![t] =
                         IF timestamps = <<>> THEN "poll" ELSE "popL"]
            /\ UNCHANGED <<lux_values, val>>
       [] pcL[t] = "popL" ->
            /\ lux_values' = IF lux_values = <<>> THEN lux_values
                             ELSE SubSeq(lux_values, 1, Len(lux_values) - 1)
            /\ pcL' = [pcL EXCEPT ![t] = "poll"]
            /\ val' = [val EXCEPT ![t] = Absent]
            /\ UNCHANGED timestamps
  /\ UNCHANGED <<serial_lock, low_lux, high_lux, lux_listening, lux_thread,
                 status_label, feedback_label, rx, sent, txBuf, txCount, now,
                 pcG, sd, nSubmit, pcU, buffer, pcP, plotN, sessionStart>>

\* if len(timestamps) > 100: timestamps.pop(0); lux_values.pop(0)
\* three steps: the test, the first pop, the second pop (a pop from an
\* emptied list raises IndexError and the handler sleeps)
L_Evict(t) ==
  /\ pcL[t] \in {"len", "popT", "popL"}
  /\ CASE pcL[t] = "len" ->
            /\ pcL' = [pcL EXCEPT ![t] =
                         IF Len(timestamps) > HistoryCap THEN "popT" ELSE "poll"]
            /\ val' = [val EXCEPT ![t] =
                         IF Len(timestamps) > HistoryCap THEN @ ELSE Absent]
            /\ UNCHANGED <<timestamps, lux_values>>
       [] pcL[t] = "popT" ->
            /\ timestamps' = IF timestamps = <<>> THEN timestamps
                             ELSE Tail(timestamps)
            /\ pcL' = [pcL EXCEPT ![t] =
                         IF timestamps = <<>> THEN "poll" ELSE "popL"]
            /\ UNCHANGED <<lux_values, val>>
       [] pcL[t] = "popL" ->
            /\ lux_values' = IF lux_values = <<>> THEN lux_values
                             ELSE Tail(lux_values)
            /\ pcL' = [pcL EXCEPT ![t] = "poll"]
            /\ val' = [val EXCEPT ![t] = Absent]
            /\ UNCHANGED timestamps
  /\ UNCHANGED <<serial_lock, low_lux, high_lux, lux_listening, lux_thread,
                 status_label, feedback_label, rx, sent, txBuf, txCount, now,
                 pcG, sd, nSubmit, pcU, buffer, pcP, plotN, sessionStart>>

LuxStep(t) ==
  \/ L_Exit(t) \/ L_Poll(t) \/ L_Acquire(t) \/ L_Read(t) \/ L_ReadFail(t)
  \/ L_AppendT(t) \/ L_AppendL(t) \/ L_Evict(t)

(***************************************************************************)
(* start_stop_lux_listening, on the Tk main thread.                        *)
(***************************************************************************)
\* if lux_listening: lux_listening = False
T_Off ==
  /\ pcG = "idle"
  /\ lux_listening
  /\ lux_listening' = FALSE
  /\ UNCHANGED <<serial_lock, low_lux, high_lux, lux_values, timestamps,
                 lux_thread, status_label, feedback_label, rx, sent, txBuf,
                 txCount, now, pcG, sd, nSubmit, pcU, buffer, pcL, val, pcP,
                 plotN, sessionStart>>

\* else: timestamps.clear()
T_On ==
  /\ pcG = "idle"
  /\ ~lux_listening
  /\ lux_thread < MaxThreads
  /\ timestamps' = <<>>
  /\ pcG' = "t_clear"
  /\ UNCHANGED <<serial_lock, low_lux, high_lux, lux_values, lux_listening,
                 lux_thread, status_label, feedback_label, rx, sent, txBuf,
                 txCount, now, sd, nSubmit, pcU, buffer, pcL, val, pcP, plotN,
                 sessionStart>>

\* lux_values.clear()
T_ClearL ==
  /\ pcG = "t_clear"
  /\ lux_values' = <<>>
  /\ pcG' = "t_start"
  /\ UNCHANGED <<serial_lock, low_lux, high_lux, timestamps, lux_listening,
                 lux_thread, status_label, feedback_label, rx, sent, txBuf,
                 txCount, now, sd, nSubmit, pcU, buffer, pcL, val, pcP, plotN,
                 sessionStart>>

\* lux_listening = True; lux_thread = threading.Thread(...); lux_thread.start()
T_Start ==
  /\ pcG = "t_start"
  /\ lux_listening' = TRUE
  /\ lux_thread' = lux_thread + 1
  /\ pcL' = [pcL EXCEPT ![lux_thread + 1] = "poll"]
  /\ sessionStart' = sent - Len(rx)
  /\ pcG' = "idle"
  /\ UNCHANGED <<serial_lock, low_lux, high_lux, lux_values, timestamps,
                 status_label, feedback_label, rx, sent, txBuf, txCount, now,
                 sd, nSubmit, pcU, buffer, val, pcP, plotN>>

ToggleStep == T_Off \/ T_On \/ T_ClearL \/ T_Start

(***************************************************************************)
(* send_data, on the Tk main thread.                                       *)
(***************************************************************************)
\* the two numbers under each other's key
DumpsSwapped(lux, pwm, priority) ==
  << [k |-> "LED", v |-> pwm], [k |-> "PWM", v |-> lux],
     [k |-> "PRIORITY", v |-> priority] >>

\* json.dumps(data): the items of the dict, in insertion order
Dumps(lux, pwm, priority) ==
  << [k |-> "LED", v |-> lux], [k |-> "PWM", v |-> pwm],
     [k |-> "PRIORITY", v |-> priority] >>

\* 0 <= pwm_value <= 999
PwmOk(p) == 0 <= p /\ p <= PwmMax

\* the PWM check placed before the lux check
HighVerdictPwmFirst(lux, pwm, high) ==
  IF ~PwmOk(pwm) THEN "PwmOutOfRange"
  ELSE IF ~(lux <= high) THEN "LuxOutOfRange"
  ELSE "ok"

\* the upper lux bound left unchecked
HighVerdictNoUpper(lux, pwm, high) ==
  IF ~PwmOk(pwm) THEN "PwmOutOfRange" ELSE "ok"

\* once low_lux <= lux_value held: if not (... lux_value <= high_lux): ...
\* elif not (0 <= pwm_value <= 999): ... else: the frame is sent
HighVerdict(lux, pwm, high) ==
  IF ~(lux <= high) THEN "LuxOutOfRange"
  ELSE IF ~PwmOk(pwm) THEN "PwmOutOfRange"
  ELSE "ok"

\* the button is pressed with lt in lux_entry, pt in pwm_entry and pr selected:
\* pwm_value = int(pwm_entry.get()); lux_value = int(lux_entry.get());
\* priority = 1 if priority_var.get() == "PWM" else 0
S_Begin(lt, pt, pr) ==
  /\ pcG = "idle"
  /\ nSubmit < MaxSubmits
  /\ nSubmit' = nSubmit + 1
  /\ LET p == ParseInt(pt)
         l == ParseInt(lt)
     IN /\ sd' = [NoCall EXCEPT !.pwm_text = pt, !.lux_text = lt,
                                !.priority_var = pr,
                                !.pwm_value = p.v,
                                !.lux_value = IF p.ok THEN l.v ELSE 0,
                                !.priority = IF pr = "PWM" THEN 1 ELSE 0,
                                !.tx0 = txCount + Len(txBuf)]
        /\ IF p.ok /\ l.ok
             THEN /\ pcG' = "s_low"
                  /\ UNCHANGED status_label
             ELSE /\ pcG' = "s_ret"
                  /\ status_label' = "NotAnInteger"
  /\ UNCHANGED <<serial_lock, low_lux, high_lux, lux_values, timestamps,
                 lux_listening, lux_thread, feedback_label, rx, sent, txBuf,
                 txCount, now, pcU, buffer, pcL, val, pcP, plotN,
                 sessionStart>>

\* if not (low_lux <= lux_value ...: the left comparison reads low_lux
S_CmpLow ==
  /\ pcG = "s_low"
  /\ sd' = [sd EXCEPT !.low = low_lux]
  /\ IF low_lux.t # "int"
       THEN /\ status_label' = "Error"
            /\ pcG' = "s_ret"
       ELSE IF low_lux.v <= sd.lux_value
         THEN /\ pcG' = "s_high"
              /\ UNCHANGED status_label
         ELSE /\ status_label' = "LuxOutOfRange"
              /\ pcG' = "s_ret"
  /\ UNCHANGED <<serial_lock, low_lux, high_lux, lux_values, timestamps,
                 lux_listening, lux_thread, feedback_label, rx, sent, txBuf,
                 txCount, now, nSubmit, pcU, buffer, pcL, val, pcP, plotN,
                 sessionStart>>

\* ... lux_value <= high_lux): the right comparison reads high_lux;
\* elif not (0 <= pwm_value <= 999)
S_CmpHigh ==
  /\ pcG = "s_high"
  /\ sd' = [sd EXCEPT !.high = high_lux]
  /\ IF high_lux.t # "int"
       THEN /\ status_label' = "Error"
            /\ pcG' = "s_ret"
       ELSE LET verdict == HighVerdict(sd.lux_value, sd.pwm_value, high_lux.v)
            IN IF verdict = "ok"
                 THEN /\ pcG' = "s_lock"
                      /\ UNCHANGED status_label
                 ELSE /\ status_label' = verdict
                      /\ pcG' = "s_ret"
  /\ UNCHANGED <<serial_lock, low_lux, high_lux, lux_values, timestamps,
                 lux_listening, lux_thread, feedback_label, rx, sent, txBuf,
                 txCount, now, nSubmit, pcU, buffer, pcL, val, pcP, plotN,
                 sessionStart>>

\* with serial_lock:
S_Acquire ==
  /\ pcG = "s_lock"
  /\ CanAcquire
  /\ serial_lock' = Gui
  /\ pcG' = "s_write"
  /\ UNCHANGED <<low_lux, high_lux, lux_values, timestamps, lux_listening,
                 lux_thread, status_label, feedback_label, rx, sent, txBuf,
                 txCount, now, sd, nSubmit, pcU, buffer, pcL, val, pcP, plotN,
                 sessionStart>>

\* ser.write(json_data.encode('utf-8')); the with block ends;
\* status_label.config(text="Data sent successfully!")
S_Write ==
  /\ pcG = "s_write"
  /\ txBuf' = Append(txBuf, Dumps(sd.lux_value, sd.pwm_value, sd.priority))
  /\ serial_lock' = Free
  /\ status_label' = "Sent"
  /\ pcG' = "s_flush"
  /\ UNCHANGED <<low_lux, high_lux, lux_values, timestamps, lux_listening,
                 lux_thread, feedback_label, rx, sent, txCount, now, sd,
                 nSubmit, pcU, buffer, pcL, val, pcP, plotN, sessionStart>>

\* ser.write raises: the with block releases the lock; except Exception
S_WriteFail ==
  /\ pcG = "s_write"
  /\ serial_lock' = Free
  /\ status_label' = "Error"
  /\ pcG' = "s_ret"
  /\ UNCHANGED <<low_lux, high_lux, lux_values, timestamps, lux_listening,
                 lux_thread, feedback_label, rx, sent, txBuf, txCount, now,
                 sd, nSubmit, pcU, buffer, pcL, val, pcP, plotN,
                 sessionStart>>

\* ser.flush()
S_Flush ==
  /\ pcG = "s_flush"
  /\ txCount' = txCount + Len(txBuf)
  /\ txBuf' = <<>>
  /\ pcG' = "s_ret"
  /\ UNCHANGED <<serial_lock, low_lux, high_lux, lux_values, timestamps,
                 lux_listening, lux_thread, status_label, feedback_label, rx,
                 sent, now, sd, nSubmit, pcU, buffer, pcL, val, pcP, plotN,
                 sessionStart>>

\* send_data returns: its locals are gone
S_Return ==
  /\ pcG = "s_ret"
  /\ sd' = NoCall
  /\ pcG' = "idle"
  /\ UNCHANGED <<serial_lock, low_lux, high_lux, lux_values, timestamps,
                 lux_listening, lux_thread, status_label, feedback_label, rx,
                 sent, txBuf, txCount, now, nSubmit, pcU, buffer, pcL, val,
                 pcP, plotN, sessionStart>>

SendRun ==
  \/ S_CmpLow \/ S_CmpHigh \/ S_Acquire \/ S_Write \/ S_WriteFail
  \/ S_Flush \/ S_Return

(***************************************************************************)
(* update_plot.                                                            *)
(***************************************************************************)
\* if len(timestamps) > 0: (sleeps a second otherwise);
\* ax.plot(timestamps, ...): the x values are taken
P_ReadX ==
  /\ pcP = "check"
  /\ Len(timestamps) > 0
  /\ plotN' = Len(timestamps)
  /\ pcP' = "plotY"
  /\ UNCHANGED <<serial_lock, low_lux, high_lux, lux_values, timestamps,
                 lux_listening, lux_thread, status_label, feedback_label, rx,
                 sent, txBuf, txCount, now, pcG, sd, nSubmit, pcU, buffer,
                 pcL, val, sessionStart>>

\* ax.plot(..., lux_values): the y values are taken; x and y of different
\* lengths raise ValueError, which nothing catches: the thread ends
P_ReadY ==
  /\ pcP = "plotY"
  /\ pcP' = IF Len(lux_values) = plotN THEN "check" ELSE "dead"
  /\ plotN' = 0
  /\ UNCHANGED <<serial_lock, low_lux, high_lux, lux_values, timestamps,
                 lux_listening, lux_thread, status_label, feedback_label, rx,
                 sent, txBuf, txCount, now, pcG, sd, nSubmit, pcU, buffer,
                 pcL, val, sessionStart>>

PlotStep == P_ReadX \/ P_ReadY

(***************************************************************************)
(* Specifications.                                                         *)
(***************************************************************************)
Next ==
  \/ \E c \in Chunks(sent + 1) : DeviceSend(c)
  \/ UsartStep
  \/ \E t \in Threads : LuxStep(t)
  \/ ToggleStep
  \/ \E f \in CoreForms : S_Begin(f.lux, f.pwm, f.priority)
  \/ SendRun
  \/ PlotStep

Spec == Init /\ [][Next]_vars

\* the user submits any form and never starts a listening session
CmdNext ==
  \/ \E c \in Chunks(sent + 1) : DeviceSend(c)
  \/ UsartStep
  \/ \E f \in Forms : S_Begin(f.lux, f.pwm, f.priority)
  \/ SendRun

CmdSpec == Init /\ [][CmdNext]_vars

\* one listening session that is never stopped, on a device that streams
\* samples; the listening thread wins every race for the line
HistNext ==
  \/ DeviceStream
  \/ T_On \/ T_ClearL \/ T_Start
  \/ \E t \in Threads :
       \/ L_Poll(t) \/ L_Acquire(t) \/ L_Read(t) \/ L_ReadFail(t)
       \/ L_AppendT(t) \/ L_AppendL(t) \/ L_Evict(t)
  \/ PlotStep

HistSpec == Init /\ [][HistNext]_vars

\* the three kinds of thread that use the device, on a device that sends
\* acknowledgements, with a form that passes validation
LockNext ==
  \/ DeviceSend(Frame(Body("ack", 0)))
  \/ U_Poll \/ U_Acquire \/ U_Read \/ U_ReadFail \/ U_ParseDone \/ U_Ack
  \/ \E t \in Threads :
       L_Exit(t) \/ L_Poll(t) \/ L_Acquire(t) \/ L_Read(t) \/ L_ReadFail(t)
  \/ ToggleStep
  \/ S_Begin(<<"5", "0">>, <<" ", "7">>, "PWM")
  \/ SendRun

LockSpec == Init /\ [][LockNext]_vars

\* a device whose acknowledgements all carry the keys of a BoundsUpdate as
\* well, beside proper BoundsUpdates, samples and junk
ClassChunks(n) ==
  { Frame(Body("hybrid", 1)),
    Frame(Body("hybrid", 2)),
    Frame(Body("bounds", 1)),
    Frame(Body("sample", n)) \o <<Ws>>,
    <<Junk, Close>> }

ClassNext ==
  \/ \E c \in ClassChunks(sent + 1) : DeviceSend(c)
  \/ UsartStep

ClassSpec == Init /\ [][ClassNext]_vars

\* the two ingestion loops on one device that sends well-formed frames of the
\* three kinds, with the user toggling the listening session
RaceChunks(n) ==
  { Frame(Body("ack", 0)),
    Frame(Body("bounds", 1)),
    Frame(Body("sample", n)) \o <<Ws>> }

RaceNext ==
  \/ \E c \in RaceChunks(sent + 1) : DeviceSend(c)
  \/ U_Poll \/ U_Acquire \/ U_Read \/ U_ReadFail \/ U_ParseDone
  \/ U_Ack \/ U_SetLow \/ U_SetHigh \/ U_Discard
  \/ \E t \in Threads : LuxStep(t)
  \/ ToggleStep

RaceSpec == Init /\ [][RaceNext]_vars

\* a device whose sample frames arrive in two reads each (a readline that
\* times out in the middle of a frame, or a frame sent on two lines): the
\* n-th read returns the frame up to its '}' when n is odd, the '}' when n is
\* even
Fragment(n) ==
  IF n % 2 = 1 THEN <<Open, Body("sample", (n + 1) \div 2)>> ELSE <<Close>>

\* the listening sessions on that device
FragNext ==
  \/ DeviceSend(Fragment(sent + 1))
  \/ ToggleStep
  \/ \E t \in Threads :
       L_Exit(t) \/ L_Poll(t) \/ L_Acquire(t) \/ L_Read(t) \/ L_ReadFail(t)

FragSpec == Init /\ [][FragNext]_vars

\* a device that also sends frames whose fields have another type than the
\* protocol's: a BoundsUpdate with a string for low_lux, a sample with a
\* string for data; one listening session beside the USART loop
TypeChunks(n) ==
  { Frame(Body("bounds", 1)),
    Frame(Body("bounds", 3)),
    Frame(Body("sample", n)),
    Frame(Body("textsample", n)) }

TypeNext ==
  \/ \E c \in TypeChunks(sent + 1) : DeviceSend(c)
  \/ U_Poll \/ U_Acquire \/ U_Read \/ U_ReadFail \/ U_ParseDone
  \/ U_SetLow \/ U_SetHigh \/ U_Discard
  \/ T_On \/ T_ClearL \/ T_Start
  \/ \E t \in Threads :
       \/ L_Poll(t) \/ L_Acquire(t) \/ L_Read(t) \/ L_ReadFail(t)
       \/ L_AppendT(t) \/ L_AppendL(t) \/ L_Evict(t)

TypeSpec == Init /\ [][TypeNext]_vars

\* the threads under the scheduler's fairness: a thread that can take a step
\* again and again takes one (a thread waiting for serial_lock gets it while
\* the others sleep); the user and the device owe nothing
LiveNext ==
  \/ \E c \in Chunks(sent + 1) : DeviceSend(c)
  \/ UsartStep
  \/ \E t \in Threads : LuxStep(t)
  \/ ToggleStep
  \/ PlotStep

FairSpec ==
  /\ Init
  /\ [][LiveNext]_vars
  /\ SF_vars(UsartStep)
  /\ WF_vars(PlotStep)
  /\ \A t \in Threads : SF_vars(LuxStep(t))

(***************************************************************************)
(* Properties.                                                             *)
(***************************************************************************)

\* C1: in every reachable state low_lux <= high_lux (a BoundsUpdate frame
\* with low_lux > high_lux is rejected and the bounds keep their values).
C1_LowLeHigh ==
  (low_lux.t = "int" /\ high_lux.t = "int") => low_lux.v <= high_lux.v

\* the '}'-terminated slices of a text, in order
RECURSIVE Slices(_)
Slices(text) ==
  IF Find(text) = 0 THEN <<>>
  ELSE <<SubSeq(text, 1, Find(text))>>
         \o Slices(SubSeq(text, Find(text) + 1, Len(text)))

\* a well-formed Acknowledgement or BoundsUpdate frame
IsGoodFrame(slice) ==
  Loads(slice).ok /\ (IsAck(Loads(slice).d) \/ IsBounds(Loads(slice).d))

\* C2: a malformed frame does not interrupt the stream: whenever the USART
\* loop is back at its poll, every well-formed Acknowledgement or
\* BoundsUpdate frame it has read has been extracted from the buffer and
\* dispatched (none is left waiting behind a malformed slice).
C2_GoodFramesExtracted ==
  pcU = "poll" =>
    \A i \in 1..Len(Slices(buffer)) : ~IsGoodFrame(Slices(buffer)[i])

\* C3: the sample history never holds more than 100 entries, in any
\* reachable state.
C3_HistoryBounded ==
  Len(timestamps) <= HistoryCap /\ Len(lux_values) <= HistoryCap

\* C4: a written frame is flushed before serial_lock is released: while a
\* frame is written and not yet flushed, send_data holds the lock.
C4_FlushBeforeRelease == txBuf # <<>> => serial_lock = Gui

\* the device operations in progress: a readline or a write that has begun
InProgress ==
  (IF pcU = "read" THEN {Usart} ELSE {})
    \cup (IF pcG = "s_write" THEN {Gui} ELSE {})
    \cup {Lux(t) : t \in {u \in Threads : pcL[u] = "read"}}

\* C5: reads and writes of the device are mutually exclusive: at most one
\* readline or write is in progress, and the thread running it holds
\* serial_lock.
C5_MutualExclusion ==
  /\ Cardinality(InProgress) <= 1
  /\ \A h \in InProgress : serial_lock = h

\* a readline in progress while the two other kinds of thread wait
C5_Contended ==
  /\ \E t \in Threads : pcL[t] = "read"
  /\ pcU = "lock"
  /\ pcG = "s_lock"

\* the submitted texts as integers, and the checks they fail; the bounds are
\* the values the comparison read (the current ones where it read none)
LuxParse == ParseInt(sd.lux_text)
PwmParse == ParseInt(sd.pwm_text)
LowSeen == IF sd.low.t = "absent" THEN low_lux ELSE sd.low
HighSeen == IF sd.high.t = "absent" THEN high_lux ELSE sd.high
BoundsAreInts == LowSeen.t = "int" /\ HighSeen.t = "int"
FailsInt == ~PwmParse.ok \/ ~LuxParse.ok
FailsLux ==
  LuxParse.ok /\ ~(LowSeen.v <= LuxParse.v /\ LuxParse.v <= HighSeen.v)
FailsPwm == PwmParse.ok /\ ~(0 <= PwmParse.v /\ PwmParse.v <= 999)
FailsSeveral ==
  \/ FailsLux /\ FailsPwm
  \/ FailsLux /\ FailsInt
  \/ FailsPwm /\ FailsInt
Returning == pcG = "s_ret" /\ BoundsAreInts

\* C6, as claimed: for every input that fails more than one check, the
\* error surfaced is the earliest failing one in the order lux range, PWM
\* range, integer.
C6_LuxPwmIntOrder ==
  (Returning /\ FailsSeveral) =>
    status_label = (IF FailsLux THEN "LuxOutOfRange" ELSE "PwmOutOfRange")

\* C6, amended: for every input that fails more than one check, the error
\* surfaced is the earliest failing one in the order integer, lux range,
\* PWM range.
C6_IntLuxPwmOrder ==
  (Returning /\ FailsSeveral) =>
    status_label = (IF FailsInt THEN "NotAnInteger" ELSE "LuxOutOfRange")

\* a lux target out of range beside a PWM text that is no integer
C6_LuxAndIntFail ==
  Returning /\ FailsLux /\ FailsInt /\ status_label = "NotAnInteger"

\* the frames send_data has handed to the device
Written == txCount + Len(txBuf)

\* a step of send_data
IsSendStep ==
  /\ pcG' # pcG
  /\ pcG \in {"s_low", "s_high", "s_lock", "s_write", "s_flush", "s_ret"}
       \/ pcG' \in {"s_low", "s_high", "s_ret"}

\* C7: a submission that fails validation writes nothing to the device
\* (when it returns, the device has been handed what it had been handed when
\* the call began), and no step of send_data changes the bounds, the
\* history or the listening state.
C7_FailedSubmitNoEffect ==
  /\ [][IsSendStep =>
          UNCHANGED <<low_lux, high_lux, timestamps, lux_values,
                      lux_listening>>]_vars
  /\ []((pcG = "s_ret" /\ BoundsAreInts
           /\ (FailsInt \/ FailsLux \/ FailsPwm))
          => (Written = sd.tx0 /\ txBuf = <<>>))

\* a submission that fails the lux check returns
C7_LuxRejected ==
  pcG = "s_ret" /\ FailsLux /\ ~FailsInt /\ status_label = "LuxOutOfRange"

\* C8: every frame written carries exactly LED, PWM, PRIORITY, with the
\* submitted lux target, the submitted pwm, and 1 for priority PWM, else 0;
\* it is written only when the range checks held, one per submission.
C8_FrameWritten ==
  /\ pcG # "s_flush" => txBuf = <<>>
  /\ pcG = "s_flush" =>
       /\ txBuf = << << [k |-> "LED", v |-> LuxParse.v],
                        [k |-> "PWM", v |-> PwmParse.v],
                        [k |-> "PRIORITY",
                         v |-> IF sd.priority_var = "PWM" THEN 1 ELSE 0] >> >>
       /\ LuxParse.ok /\ PwmParse.ok
       /\ 0 <= PwmParse.v /\ PwmParse.v <= 999
       /\ sd.low.t = "int" /\ sd.high.t = "int"
       /\ sd.low.v <= LuxParse.v /\ LuxParse.v <= sd.high.v
       /\ Written = sd.tx0 + 1
  /\ pcG = "s_ret" =>
       Written = sd.tx0 + (IF status_label = "Sent" THEN 1 ELSE 0)

\* a frame with priority LUX is written and not yet flushed
C8_LuxPriorityFrame ==
  pcG = "s_flush" /\ sd.priority_var = "LUX" /\ Len(txBuf) = 1

\* the session thread t was started for has been stopped
SessionStopped(t) ==
  /\ pcL[t] # "none"
  /\ lux_thread > t \/ (lux_thread = t /\ ~lux_listening)

\* C9: after every Listening->Idle transition the thread of that session
\* eventually terminates, whatever toggles follow.
C9_StoppedThreadTerminates ==
  \A t \in Threads : SessionStopped(t) ~> (pcL[t] = "done")

\* C10: once a session has started, the history holds only samples read
\* from the device after the start (sample n is the n-th chunk; the first
\* sessionStart chunks were read before it).
C10_OnlyNewSamples ==
  lux_listening =>
    \A i \in 1..Len(lux_values) : lux_values[i].v > sessionStart

\* C11: every append to the sample history happens in a state where
\* lux_listening is true; while the session is Idle the history is never
\* extended.
C11_AppendOnlyWhileListening ==
  [][(Len(timestamps') > Len(timestamps)
        \/ Len(lux_values') > Len(lux_values)) => lux_listening]_vars

\* the lines read from the device so far, and how many of them a history of
\* capacity 100 keeps
Consumed == sent - Len(rx)
Kept == IF Consumed > HistoryCap THEN HistoryCap ELSE Consumed

\* no listen_for_lux thread is between its readline and the end of its
\* iteration
LuxAtRest == \A t \in Threads : pcL[t] \in {"none", "poll", "lock", "read"}

\* C12: eviction is FIFO.  On a device that streams the samples 1, 2, 3, ...
\* to one session, after every completed iteration the history holds the
\* last 100 samples read (all of them while there are no more than 100), in
\* the order read, the newest last, each beside the timestamp taken when it
\* was appended (the n-th append takes timestamp n).
C12_FifoEviction ==
  LuxAtRest =>
    /\ Len(lux_values) = Kept
    /\ Len(timestamps) = Kept
    /\ \A i \in 1..Kept :
         /\ lux_values[i] = JInt(Consumed - Kept + i)
         /\ timestamps[i] = Consumed - Kept + i

\* the 101st sample and later ones have been appended and the eviction done
C12_Evicted ==
  /\ LuxAtRest
  /\ Consumed > HistoryCap
  /\ Len(lux_values) = HistoryCap
  /\ lux_values[HistoryCap] = JInt(Consumed)

\* the USART loop is about to classify a parsed frame that has both success
\* and message
AckShapeParsed ==
  /\ pcU = "parse"
  /\ Find(buffer) # 0
  /\ Parsed.ok
  /\ Has(Parsed.d, "success") /\ Has(Parsed.d, "message")

\* C13: a parsed frame whose keys include both success and message is
\* handled as an Acknowledgement whatever other keys it has: the step that
\* dispatches it overwrites the feedback with its success and message,
\* leaves the bounds alone and drops the frame from the buffer.  On a device
\* whose only frames with success and message also carry operation, low_lux
\* and high_lux, the bounds are never other than the default ones or those
\* of a BoundsUpdate proper.
C13_AckWins ==
  /\ [][(AckShapeParsed /\ (pcU' # pcU \/ buffer' # buffer)) =>
          /\ feedback_label' = [success |-> Parsed.d["success"],
                                message |-> Parsed.d["message"]]
          /\ UNCHANGED <<low_lux, high_lux>>
          /\ buffer' = Rest]_vars
  /\ [](/\ low_lux \in {JInt(0), BoundsPairs[1][1]}
        /\ high_lux \in {JInt(DefaultHigh), BoundsPairs[1][2]})

\* a frame with the keys of both shapes has been dispatched: the feedback is
\* set and the bounds are the default ones
C13_HybridAcknowledged ==
  /\ feedback_label = [success |-> JBool(1), message |-> JStr(2)]
  /\ low_lux = JInt(0)
  /\ high_lux = JInt(DefaultHigh)
  /\ pcU = "poll"
  /\ buffer = <<>>

\* the places sample n is in: the device's queue, the USART buffer, a
\* listen_for_lux thread that has read it and not yet appended it, the history
Holders(n) ==
  Cardinality({i \in 1..Len(rx) :
                 \E j \in 1..Len(rx[i]) : rx[i][j] = Body("sample", n)})
    + Cardinality({i \in 1..Len(buffer) : buffer[i] = Body("sample", n)})
    + Cardinality({t \in Threads :
                     pcL[t] \in {"appT", "appL"} /\ val[t] = JInt(n)})
    + Cardinality({i \in 1..Len(lux_values) : lux_values[i] = JInt(n)})

\* a step of the USART loop, a step of a listen_for_lux thread
IsUsartStep == pcU' # pcU \/ buffer' # buffer
IsLuxStep == pcL' # pcL

\* C14: each line received is consumed by exactly one of the ingestion
\* loops, and a line consumed by the loop that does not handle its kind
\* updates nothing.  A step that takes a line from the device takes the
\* first one, and is the readline of one thread, which holds serial_lock; no
\* step of a listen_for_lux thread changes the feedback, the bounds or the
\* USART buffer; no step of the USART loop changes the history; and no
\* sample is ever in two places (sample n is the device's n-th line).
C14_OneConsumer ==
  /\ [][rx' # rx /\ Len(rx') <= Len(rx) =>
          /\ rx' = Tail(rx)
          /\ \/ /\ pcU = "read" /\ pcU' # pcU /\ serial_lock = Usart
                /\ pcL' = pcL
             \/ /\ pcU' = pcU /\ buffer' = buffer
                /\ \E t \in Threads :
                     /\ pcL[t] = "read" /\ pcL'[t] # pcL[t]
                     /\ serial_lock = Lux(t)
                     /\ \A u \in Threads \ {t} : pcL'[u] = pcL[u]]_vars
  /\ [][IsLuxStep =>
          UNCHANGED <<feedback_label, low_lux, high_lux, buffer>>]_vars
  /\ [][IsUsartStep => UNCHANGED <<timestamps, lux_values, val>>]_vars
  /\ [](\A n \in 1..sent : Holders(n) <= 1)
  /\ [](\A i \in 1..Len(lux_values) :
          lux_values[i].t = "int" /\ lux_values[i].v \in 1..sent)

\* while a session is running the USART loop has taken a sample line, which
\* it is about to classify, and the history is empty
C14_SampleTakenByUsart ==
  /\ lux_listening
  /\ \E t \in Threads : pcL[t] = "poll"
  /\ pcU = "parse"
  /\ \E i \in 1..Len(buffer) : buffer[i].c = "sample"
  /\ lux_values = <<>>

\* C15: a frame that reaches ingestion in two reads is emitted once the rest
\* of it has arrived.  In a listening session that began before any read,
\* once the two reads of the first sample frame are done and every
\* listen_for_lux thread is back at its poll, the sample is in the history,
\* once.
C15_SplitFrameEmitted ==
  (/\ lux_listening
   /\ sessionStart = 0
   /\ Consumed >= 2
   /\ \A t \in Threads : pcL[t] \in {"none", "poll", "done"})
    => Cardinality({i \in 1..Len(lux_values) : lux_values[i] = JInt(1)}) = 1

\* C16: a frame whose fields have an unexpected type changes no state: the
\* bounds are integers in every reachable state, and so is every value of
\* the history.
C16_TypedFieldsOnly ==
  /\ low_lux.t = "int"
  /\ high_lux.t = "int"
  /\ \A i \in 1..Len(lux_values) : lux_values[i].t = "int"

\* C17: serial_lock is held only for one readline or one write.  Whoever
\* holds it is at that operation (never at its poll or anywhere else in its
\* loop), and the holder's next step, whether the operation returns or
\* raises, releases it.
C17_LockHeldForOneOperation ==
  /\ [](/\ serial_lock = Usart => pcU = "read"
        /\ serial_lock = Gui => pcG = "s_write"
        /\ \A t \in Threads : serial_lock = Lux(t) => pcL[t] = "read"
        /\ serial_lock \in {Free, Gui, Usart} \cup {Lux(t) : t \in Threads})
  /\ [][(\/ serial_lock = Usart /\ pcU' # pcU
         \/ serial_lock = Gui /\ pcG' # pcG
         \/ \E t \in Threads : serial_lock = Lux(t) /\ pcL'[t] # pcL[t])
          => serial_lock' = Free]_vars

\* send_data has released the lock after its write and, before it has
\* flushed, a listen_for_lux thread holds the lock for its read
C17_HandedOver ==
  /\ pcG = "s_flush"
  /\ \E t \in Threads : serial_lock = Lux(t)
  /\ pcU = "poll"

\* update_plot is about to read the lists; the toggle is about to clear them
PlotReads == pcP \in {"check", "plotY"}
ToggleClears == pcG = "idle" /\ ~lux_listening

\* C18: in every reachable state in which the plot thread reads the two
\* lists or the toggle clears them, they have the same length.
C18_EqualLengths ==
  (PlotReads \/ ToggleClears) => Len(timestamps) = Len(lux_values)

\* the listen_for_lux threads that have started and not returned
AliveLux == {t \in Threads : pcL[t] \notin {"none", "done"}}

\* C19: at most one listen_for_lux thread is alive at any time.
C19_OneLuxThread == Cardinality(AliveLux) <= 1

\* the pairs of bounds there have been: the initial one and those of the
\* BoundsUpdate frames
AnnouncedPairs ==
  {<<JInt(0), JInt(DefaultHigh)>>}
    \cup {BoundsPairs[i] : i \in 1..Len(BoundsPairs)}

\* C20: the low_lux and high_lux that send_data compares the lux target
\* against both come from the same BoundsUpdate, or both from the initial
\* default.
C20_ConsistentPair ==
  (sd.low.t # "absent" /\ sd.high.t # "absent")
    => <<sd.low, sd.high>> \in AnnouncedPairs

====
